---- MODULE Spec2Model ----
(***************************************************************************)
(* Model of TradingStrategy (src/strategy.py): the position record, the    *)
(* entry/exit decision functions and the polling loop run_strategy.        *)
(*                                                                         *)
(* Prices are integers (ticks).  The code compares Python floats:          *)
(*   current_price < avg * (1 - 2/100)   etc.                              *)
(* The model compares the exact cross-multiplied integers                  *)
(*   100 * current_price < avg * (100 - 2).                                *)
(* For every integer avg in 1..399 and price in 1..499 the IEEE-754        *)
(* double results of the four comparisons of the code equal the exact      *)
(* ones, so on the price range of the model both agree.                    *)
(***************************************************************************)
EXTENDS Integers, Sequences, FiniteSets, TLC

(***************************************************************************)
(* Strategy configuration, TradingStrategy.__init__                        *)
(***************************************************************************)
buy1_size == 40
buy2_size == 7
stop_loss_percent == 3
take_profit_percent == 5
buy2_offset == 4
immediate_exit_threshold == 2
rsi_length == 14
rsi_oversold == 33

(***************************************************************************)
(* Bounds of the model                                                     *)
(***************************************************************************)
MinPrice == 95
MaxPrice == 106
ExtraBars == 1
ShortLen == 3

Prices == MinPrice..MaxPrice

\* Python's None for a signal or a return value; 0 stands for an unset price
None == "None"
NoPrice == 0

(***************************************************************************)
(* Text <-> number conversions: str(n) and float(s) on decimal numerals.   *)
(* A numeral is the sequence of its decimal digits, most significant       *)
(* first.                                                                  *)
(***************************************************************************)
RECURSIVE str(_)
str(n) == IF n < 10 THEN <<n>> ELSE Append(str(n \div 10), n % 10)

RECURSIVE float(_)
float(s) == IF Len(s) = 0 THEN 0
            ELSE 10 * float(SubSeq(s, 1, Len(s) - 1)) + s[Len(s)]

(***************************************************************************)
(* Stable ascending sort of a sequence of <<key, item>> pairs by key, as   *)
(* Python's sorted(..., key = ...) and as ORDER BY ... ASC on a unique     *)
(* key: insertion of each pair behind the pairs whose key is not greater.  *)
(***************************************************************************)
RECURSIVE InsertByKey(_, _)
InsertByKey(sorted, pair) ==
    IF Len(sorted) = 0 THEN <<pair>>
    ELSE IF sorted[Len(sorted)][1] <= pair[1] THEN Append(sorted, pair)
    ELSE Append(InsertByKey(SubSeq(sorted, 1, Len(sorted) - 1), pair), sorted[Len(sorted)])

RECURSIVE SortByKey(_)
SortByKey(pairs) ==
    IF Len(pairs) = 0 THEN << >>
    ELSE InsertByKey(SortByKey(SubSeq(pairs, 1, Len(pairs) - 1)), pairs[Len(pairs)])

(***************************************************************************)
(* The exchange's answers to get_candlesticks: a sequence of candles       *)
(* [ts, open, high, low, close, volume] of numerals, newest first.         *)
(***************************************************************************)
HistLen == rsi_length + 1

Shapes == {"at33", "below33", "rising", "falling"}

\* volume of the i-th delivered candle of a shape
VolumeAt(shape, i) ==
    CASE shape = "at33"    -> IF i = 1 THEN 1000 ELSE IF i = 2 THEN 1462
                              ELSE IF i <= HistLen THEN 524 ELSE 524 + (i - HistLen)
      [] shape = "below33" -> IF i = 1 THEN 1000 ELSE IF i = 2 THEN 1461
                              ELSE IF i <= HistLen THEN 524 ELSE 524 + (i - HistLen)
      [] shape = "rising"  -> 200 + i
      [] shape = "falling" -> 200 - i

CloseAt(shape, i) == 100 + (i % 3)

\* n candles, delivered in the order the exchange delivers them
Candles(shape, n) ==
    [k \in 1..n |->
        <<str(n - k + 1), str(CloseAt(shape, k)), str(CloseAt(shape, k) + 1),
          str(CloseAt(shape, k) - 1), str(CloseAt(shape, k)), str(VolumeAt(shape, k))>>]

\* a candle with a missing field
Malformed == << <<str(1), str(100), str(101), str(99), str(100)>> >>

FeedLengths == {0, ShortLen} \cup (HistLen..(HistLen + ExtraBars))

Feeds == {Candles(shape, n) : shape \in Shapes, n \in FeedLengths} \cup {Malformed}


\* faulty variant of get_historical_prices: a candle without the field counts as 0
get_historical_prices_default(feed) ==
    [k \in 1..Len(feed) |-> IF Len(feed[k]) < 6 THEN 0 ELSE float(feed[k][6])]

(***************************************************************************)
(* get_historical_prices: float(candle[5]) of every delivered candle, in   *)
(* delivery order; Python index 5 is the 6th field.  A candle without      *)
(* that field raises inside the try, and the method returns [].            *)
(***************************************************************************)
candle_index == 5

Raises(candles) == \E k \in 1..Len(candles) : Len(candles[k]) < candle_index + 1

get_historical_prices(candles) ==
    IF Raises(candles) THEN << >>
    ELSE [k \in 1..Len(candles) |-> float(candles[k][candle_index + 1])]

(***************************************************************************)
(* calculate_rsi: talib.RSI(prices, timeperiod = rsi_length).              *)
(* A value is a pair <<num, den>> standing for the float num / den;        *)
(* NaN (den = 0) fills the warm-up.  Wilder smoothing is kept exact by     *)
(* scaling: SmoothedGain(p, i) = prevGain * rsi_length ^ (i - rsi_length). *)
(***************************************************************************)
NaN == <<0, 0>>

RECURSIVE Pow(_, _)
Pow(b, e) == IF e = 0 THEN 1 ELSE b * Pow(b, e - 1)

Gain(prices, i) == IF prices[i] > prices[i - 1] THEN prices[i] - prices[i - 1] ELSE 0
Loss(prices, i) == IF prices[i] < prices[i - 1] THEN prices[i - 1] - prices[i] ELSE 0

RECURSIVE SumGain(_, _)
SumGain(prices, i) == IF i < 2 THEN 0 ELSE SumGain(prices, i - 1) + Gain(prices, i)

RECURSIVE SumLoss(_, _)
SumLoss(prices, i) == IF i < 2 THEN 0 ELSE SumLoss(prices, i - 1) + Loss(prices, i)

RECURSIVE SmoothedGain(_, _)
SmoothedGain(prices, i) ==
    IF i = rsi_length + 1 THEN SumGain(prices, i)
    ELSE SmoothedGain(prices, i - 1) * (rsi_length - 1)
         + Gain(prices, i) * Pow(rsi_length, i - rsi_length - 1)

RECURSIVE SmoothedLoss(_, _)
SmoothedLoss(prices, i) ==
    IF i = rsi_length + 1 THEN SumLoss(prices, i)
    ELSE SmoothedLoss(prices, i - 1) * (rsi_length - 1)
         + Loss(prices, i) * Pow(rsi_length, i - rsi_length - 1)

RsiAt(prices, i) ==
    IF i <= rsi_length THEN NaN
    ELSE LET g == SmoothedGain(prices, i)
             l == SmoothedLoss(prices, i)
         IN  IF g + l = 0 THEN <<0, 1>> ELSE <<100 * g, g + l>>

calculate_rsi(prices) == [i \in 1..Len(prices) |-> RsiAt(prices, i)]

\* float comparison  r < t  of an RSI value with an integer; false for NaN
FloatLess(r, t) == r[2] # 0 /\ r[1] < t * r[2]

\* faulty variants of check_entry_conditions
check_entry_conditions_rsi_le(size, avg, prices, price) ==
    IF Len(prices) = 0 THEN "raise"
    ELSE LET current_rsi == RsiAt(prices, Len(prices))
         IN  IF size = 0 /\ current_rsi # NaN /\ current_rsi[1] <= rsi_oversold * current_rsi[2]
             THEN "buy1"
             ELSE IF size = buy1_size /\ 100 * price > avg * (100 + buy2_offset)
                  THEN "buy2"
                  ELSE None

check_entry_conditions_any_size(size, avg, prices, price) ==
    IF Len(prices) = 0 THEN "raise"
    ELSE LET current_rsi == RsiAt(prices, Len(prices))
         IN  IF size = 0 /\ FloatLess(current_rsi, rsi_oversold) THEN "buy1"
             ELSE IF size >= buy1_size /\ 100 * price > avg * (100 + buy2_offset)
                  THEN "buy2"
                  ELSE None

check_entry_conditions_buy2_ge(size, avg, prices, price) ==
    IF Len(prices) = 0 THEN "raise"
    ELSE LET current_rsi == RsiAt(prices, Len(prices))
         IN  IF size = 0 /\ FloatLess(current_rsi, rsi_oversold) THEN "buy1"
             ELSE IF size = buy1_size /\ 100 * price >= avg * (100 + buy2_offset)
                  THEN "buy2"
                  ELSE None

(***************************************************************************)
(* check_entry_conditions(prices, current_price) on a position             *)
(* (size, avg).  rsi_values[-1] of an empty array raises.                  *)
(***************************************************************************)
RaiseSignal == "raise"

check_entry_conditions(size, avg, prices, price) ==
    IF Len(prices) = 0 THEN RaiseSignal
    ELSE LET rsi_values == calculate_rsi(prices)
             current_rsi == rsi_values[Len(rsi_values)]
         IN  IF size = 0 /\ FloatLess(current_rsi, rsi_oversold) THEN "buy1"
             ELSE IF size = buy1_size /\ 100 * price > avg * (100 + buy2_offset)
                  THEN "buy2"
                  ELSE None

\* faulty variants of check_exit_conditions
check_exit_conditions_tpsl_first(size, avg, price) ==
    IF size = 0 THEN None
    ELSE IF \/ 100 * price <= avg * (100 - stop_loss_percent)
            \/ 100 * price >= avg * (100 + take_profit_percent)
         THEN "tp_sl"
    ELSE IF 100 * price < avg * (100 - immediate_exit_threshold) THEN "immediate_exit"
         ELSE None

check_exit_conditions_no_immediate(size, avg, price) ==
    IF size = 0 THEN None
    ELSE IF \/ 100 * price <= avg * (100 - stop_loss_percent)
            \/ 100 * price >= avg * (100 + take_profit_percent)
         THEN "tp_sl"
         ELSE None

check_exit_conditions_tp_gt(size, avg, price) ==
    IF size = 0 THEN None
    ELSE IF 100 * price < avg * (100 - immediate_exit_threshold) THEN "immediate_exit"
    ELSE IF \/ 100 * price <= avg * (100 - stop_loss_percent)
            \/ 100 * price > avg * (100 + take_profit_percent)
         THEN "tp_sl"
         ELSE None

check_exit_conditions_tp_at_cost(size, avg, price) ==
    IF size = 0 THEN None
    ELSE IF 100 * price < avg * (100 - immediate_exit_threshold) THEN "immediate_exit"
    ELSE IF \/ 100 * price <= avg * (100 - stop_loss_percent)
            \/ 100 * price >= avg * 100
         THEN "tp_sl"
         ELSE None

(***************************************************************************)
(* check_exit_conditions(prices, current_price) on a position (size, avg)  *)
(***************************************************************************)
check_exit_conditions(size, avg, price) ==
    IF size = 0 THEN None
    ELSE IF 100 * price < avg * (100 - immediate_exit_threshold) THEN "immediate_exit"
    ELSE IF \/ 100 * price <= avg * (100 - stop_loss_percent)
            \/ 100 * price >= avg * (100 + take_profit_percent)
         THEN "tp_sl"
         ELSE None


(***************************************************************************)
(* State.  position_size, position_avg_price are the fields of the         *)
(* strategy object; the next ones are the locals of one iteration of       *)
(* run_strategy and what the iteration did to the outside world.  The      *)
(* last ones are the SQLite store of src/data/models.py and the position   *)
(* of the ingestion loop fetch_and_store_data in its code.                 *)
(***************************************************************************)
VARIABLES
    position_size,       \* self.position_size
    position_avg_price,  \* self.position_avg_price
    pc,                  \* the statement run_strategy executes next
    historical_prices,   \* local of run_strategy (line 256)
    current_price,       \* local of run_strategy (line 257), NoPrice if unset
    entry_signal,        \* local of run_strategy (line 260)
    exit_signal,         \* local of run_strategy (line 268)
    order_price,         \* local current_price of enter_position (line 192)
    result,              \* return value of the last enter_position / exit_position
    orders,              \* place_order requests sent in this iteration
    remote_reads,        \* market-data requests sent in this iteration
    errors,              \* logger.error sites hit in this iteration
    candles,             \* candles['data'] of line 94, << >> if the call raised
    historical_data,     \* table historical_data, rows in rowid order
    strategy_signals,    \* table strategy_signals, rows in rowid order
    db_call,             \* the last call of a Database method and how it ended
    ing_pc               \* the statement fetch_and_store_data executes next

vars == <<position_size, position_avg_price, pc, historical_prices, current_price,
          entry_signal, exit_signal, order_price, result, orders, remote_reads, errors,
          candles, historical_data, strategy_signals, db_call, ing_pc>>

position == <<position_size, position_avg_price>>
locals == <<historical_prices, current_price, entry_signal, exit_signal, candles>>

\* the state of the store and of its ingestion loop
store == <<historical_data, strategy_signals, db_call, ing_pc>>

\* the state of the strategy
strategy == <<position_size, position_avg_price, pc, historical_prices, current_price,
              entry_signal, exit_signal, order_price, result, orders, remote_reads,
              errors, candles>>

\* no Database method was called yet
NoCall == [op |-> "none", status |-> "none", symbol |-> "", data |-> << >>,
           applied |-> 0, rows |-> << >>, timestamp |-> 0, signal |-> ""]

\* what place_order can do: return an accepted order, return the
\* exchange's error response (no exception), or raise
PlaceOrderOutcomes == {"accepted", "rejected", "raise"}

Init ==
    /\ position_size = 0
    /\ position_avg_price = 0
    /\ pc = "get_historical_prices"
    /\ historical_prices = << >>
    /\ current_price = NoPrice
    /\ entry_signal = None
    /\ exit_signal = None
    /\ order_price = NoPrice
    /\ result = None
    /\ orders = << >>
    /\ remote_reads = 0
    /\ errors = {}
    /\ candles = << >>
    /\ historical_data = << >>
    /\ strategy_signals = << >>
    /\ db_call = NoCall
    /\ ing_pc = "initial_fetch"

(***************************************************************************)
(* line 256: historical_prices = self.get_historical_prices(symbol)        *)
(***************************************************************************)
GetHistoricalPrices ==
    /\ pc = "get_historical_prices"
    /\ remote_reads' = remote_reads + 1
    /\ \/ \E feed \in Feeds :
             /\ candles' = feed
             /\ historical_prices' = get_historical_prices(feed)
             /\ errors' = IF Raises(feed) THEN errors \cup {"get_historical_prices"}
                          ELSE errors
       \/ \* get_candlesticks raises
          /\ candles' = << >>
          /\ historical_prices' = << >>
          /\ errors' = errors \cup {"get_historical_prices"}
    /\ pc' = "get_current_price"
    /\ UNCHANGED <<position, current_price, entry_signal, exit_signal,
                   order_price, result, orders, store>>

\* faulty variant: no handler around the body of the loop
LoopHandler_missing == "terminated"

(***************************************************************************)
(* line 257: current_price = self.get_current_price(symbol); an exception  *)
(* goes to the handler of line 273                                         *)
(***************************************************************************)
LoopHandler == "sleep"

GetCurrentPrice ==
    /\ pc = "get_current_price"
    /\ remote_reads' = remote_reads + 1
    /\ \/ \E price \in Prices :
             /\ current_price' = price
             /\ pc' = "check_entry_conditions"
             /\ UNCHANGED errors
       \/ \* get_ticker raises or its payload is malformed
          /\ errors' = errors \cup {"run_strategy"}
          /\ pc' = LoopHandler
          /\ UNCHANGED current_price
    /\ UNCHANGED <<position, historical_prices, entry_signal, exit_signal,
                   order_price, result, orders, candles, store>>

(***************************************************************************)
(* lines 260-265: the entry check and the branch on its signal             *)
(***************************************************************************)
CheckEntry ==
    /\ pc = "check_entry_conditions"
    /\ LET signal == check_entry_conditions(position_size, position_avg_price,
                                            historical_prices, current_price)
       IN  IF signal = RaiseSignal
           THEN /\ errors' = errors \cup {"run_strategy"}
                /\ pc' = LoopHandler
                /\ UNCHANGED entry_signal
           ELSE /\ entry_signal' = signal
                /\ pc' = IF signal \in {"buy1", "buy2"} THEN "enter_position"
                         ELSE "check_exit_conditions"
                /\ UNCHANGED errors
    /\ UNCHANGED <<position, historical_prices, current_price, exit_signal,
                   order_price, result, orders, remote_reads, candles, store>>

\* faulty variant of enter_position: the position is updated before the order
enter_position_updates_first(side, size) ==
    \/ /\ remote_reads' = remote_reads + 1
       /\ errors' = errors \cup {"enter_position"}
       /\ result' = None
       /\ UNCHANGED <<position, order_price, orders>>
    \/ \E price \in Prices, outcome \in PlaceOrderOutcomes :
          /\ remote_reads' = remote_reads + 1
          /\ order_price' = price
          /\ position_size' = position_size + size
          /\ position_avg_price' = price
          /\ orders' = Append(orders, [side |-> side, sz |-> str(size),
                                       outcome |-> outcome])
          /\ IF outcome = "raise"
             THEN /\ errors' = errors \cup {"enter_position"}
                  /\ result' = None
             ELSE /\ result' = outcome
                  /\ UNCHANGED errors

(***************************************************************************)
(* enter_position(symbol, side, size), lines 191-210                       *)
(***************************************************************************)
enter_position(side, size) ==
    \/ \* get_current_price raises
       /\ remote_reads' = remote_reads + 1
       /\ errors' = errors \cup {"enter_position"}
       /\ result' = None
       /\ UNCHANGED <<position, order_price, orders>>
    \/ \E price \in Prices, outcome \in PlaceOrderOutcomes :
          /\ remote_reads' = remote_reads + 1
          /\ order_price' = price
          /\ orders' = Append(orders, [side |-> side, sz |-> str(size),
                                       outcome |-> outcome])
          /\ IF outcome = "raise"
             THEN /\ errors' = errors \cup {"enter_position"}
                  /\ result' = None
                  /\ UNCHANGED position
             ELSE /\ position_size' = position_size + size
                  /\ position_avg_price' = price
                  /\ result' = outcome
                  /\ UNCHANGED errors

\* faulty variant: a failed entry ends the iteration
EnterPosition_skips_exit ==
    /\ pc = "enter_position"
    /\ enter_position("buy", IF entry_signal = "buy1" THEN buy1_size ELSE buy2_size)
    /\ pc' = IF result' = None THEN "sleep" ELSE "check_exit_conditions"
    /\ UNCHANGED <<locals, store>>

\* faulty variant: a failed entry is repeated within the iteration
EnterPosition_retries ==
    /\ pc = "enter_position"
    /\ enter_position("buy", IF entry_signal = "buy1" THEN buy1_size ELSE buy2_size)
    /\ pc' = IF result' = None THEN "enter_position" ELSE "check_exit_conditions"
    /\ UNCHANGED <<locals, store>>

EnterPosition ==
    /\ pc = "enter_position"
    /\ enter_position("buy", IF entry_signal = "buy1" THEN buy1_size ELSE buy2_size)
    /\ pc' = "check_exit_conditions"
    /\ UNCHANGED <<locals, store>>

\* faulty variant: the exit check itself closes the position
CheckExit_resets ==
    /\ pc = "check_exit_conditions"
    /\ exit_signal' = check_exit_conditions(position_size, position_avg_price,
                                            current_price)
    /\ pc' = IF exit_signal' \in {"immediate_exit", "tp_sl"} THEN "exit_position"
             ELSE "sleep"
    /\ position_size' = IF exit_signal' = None THEN position_size ELSE 0
    /\ position_avg_price' = IF exit_signal' = None THEN position_avg_price ELSE 0
    /\ UNCHANGED <<historical_prices, current_price, entry_signal,
                   order_price, result, orders, remote_reads, errors, candles, store>>

(***************************************************************************)
(* lines 268-271: the exit check and the branch on its signal              *)
(***************************************************************************)
CheckExit ==
    /\ pc = "check_exit_conditions"
    /\ exit_signal' = check_exit_conditions(position_size, position_avg_price,
                                            current_price)
    /\ pc' = IF exit_signal' \in {"immediate_exit", "tp_sl"} THEN "exit_position"
             ELSE "sleep"
    /\ UNCHANGED <<position, historical_prices, current_price, entry_signal,
                   order_price, result, orders, remote_reads, errors, candles, store>>

\* faulty variants of exit_position
exit_position_keeps_avg ==
    \E outcome \in PlaceOrderOutcomes :
       /\ orders' = Append(orders, [side |-> IF position_size > 0 THEN "sell" ELSE "buy",
                                    sz |-> str(position_size), outcome |-> outcome])
       /\ IF outcome = "raise"
          THEN /\ errors' = errors \cup {"exit_position"}
               /\ result' = None
               /\ UNCHANGED position
          ELSE /\ position_size' = 0
               /\ result' = outcome
               /\ UNCHANGED <<position_avg_price, errors>>

exit_position_first_tranche ==
    \E outcome \in PlaceOrderOutcomes :
       /\ orders' = Append(orders, [side |-> IF position_size > 0 THEN "sell" ELSE "buy",
                                    sz |-> str(buy1_size), outcome |-> outcome])
       /\ IF outcome = "raise"
          THEN /\ errors' = errors \cup {"exit_position"}
               /\ result' = None
               /\ UNCHANGED position
          ELSE /\ position_size' = 0
               /\ position_avg_price' = 0
               /\ result' = outcome
               /\ UNCHANGED errors

(***************************************************************************)
(* exit_position(symbol), lines 222-241                                    *)
(***************************************************************************)
exit_position ==
    \E outcome \in PlaceOrderOutcomes :
       /\ orders' = Append(orders, [side |-> IF position_size > 0 THEN "sell" ELSE "buy",
                                    sz |-> str(position_size), outcome |-> outcome])
       /\ IF outcome = "raise"
          THEN /\ errors' = errors \cup {"exit_position"}
               /\ result' = None
               /\ UNCHANGED position
          ELSE /\ position_size' = 0
               /\ position_avg_price' = 0
               /\ result' = outcome
               /\ UNCHANGED errors

ExitPosition ==
    /\ pc = "exit_position"
    /\ exit_position
    /\ pc' = "sleep"
    /\ UNCHANGED <<locals, order_price, remote_reads, store>>

(***************************************************************************)
(* line 277: time.sleep(10), then the next iteration of while True         *)
(***************************************************************************)
Sleep ==
    /\ pc = "sleep"
    /\ pc' = "get_historical_prices"
    /\ historical_prices' = << >>
    /\ current_price' = NoPrice
    /\ entry_signal' = None
    /\ exit_signal' = None
    /\ order_price' = NoPrice
    /\ result' = None
    /\ orders' = << >>
    /\ remote_reads' = 0
    /\ errors' = {}
    /\ candles' = << >>
    /\ UNCHANGED <<position, store>>

Next ==
    \/ GetHistoricalPrices
    \/ GetCurrentPrice
    \/ CheckEntry
    \/ EnterPosition
    \/ CheckExit
    \/ ExitPosition
    \/ Sleep

Spec == Init /\ [][Next]_vars

\* the loop is one thread that always runs its next statement
FairSpec == Spec /\ WF_vars(Next)


(***************************************************************************)
(* The store, class Database of src/data/models.py.  A table is the        *)
(* sequence of its rows in rowid order.  Candles come from the exchange    *)
(* as sequences of numerals [ts, open, high, low, close, volume].          *)
(***************************************************************************)
MaxTs == 2
MaxBatch == 2

\* the symbol fetch_and_store_data is run for, and one written by another caller
symbol_traded == "XRP-USDT"
OtherSymbol == "BTC-USDT"
Symbols == {symbol_traded, OtherSymbol}

\* the close prices of the revisions of one bar
Revisions == {1, 2}

Bar(ts, close) ==
    <<str(ts), str(close), str(close + 1), str(close), str(close), str(close + 10)>>

StoreCandles == {Bar(ts, close) : ts \in 1..MaxTs, close \in Revisions}

Batches == UNION {[1..n -> StoreCandles] : n \in 0..MaxBatch}

\* a latest bar without its fields
MalformedBar == <<str(1), str(1)>>

\* what a caller may write: any bar of the traded symbol, one bar of the other
Writes == ({symbol_traded} \X StoreCandles) \cup {<<OtherSymbol, Bar(1, 1)>>}

NULL == "NULL"

\* datetime.fromtimestamp(int(timestamp) / 1000), printed to the second
convert_timestamp_to_datetime(timestamp) == str(float(timestamp) \div 1000)

\* the row bound to the VALUES of the INSERT OR REPLACE of a candle; the
\* column affinities INTEGER / REAL turn the numerals into numbers
Row(symbol, candle) ==
    [symbol    |-> symbol,
     timestamp |-> float(candle[1]),
     datetime  |-> convert_timestamp_to_datetime(candle[1]),
     open      |-> float(candle[2]),
     high      |-> float(candle[3]),
     low       |-> float(candle[4]),
     close     |-> float(candle[5]),
     volume    |-> float(candle[6])]

\* PRIMARY KEY (symbol, timestamp) of both tables
SameKey(r1, r2) == r1.symbol = r2.symbol /\ r1.timestamp = r2.timestamp

\* faulty variant: INSERT without OR REPLACE on a table without the key
InsertOrReplace_keeps(table, row) == Append(table, row)

\* INSERT OR REPLACE: the row with the same key is deleted, the new row appended
InsertOrReplace(table, row) ==
    Append(SelectSeq(table, LAMBDA r : ~SameKey(r, row)), row)

\* insert_or_update_data, lines 78-96, when the statement succeeds
insert_or_update_data(table, symbol, candle) ==
    InsertOrReplace(table, Row(symbol, candle))

\* lines 117-130 of bulk_insert_historical_data: the rows in ascending timestamp
data_to_insert(symbol, batch) ==
    LET sorted_candles == SortByKey([k \in 1..Len(batch) |-> <<float(batch[k][1]), batch[k]>>])
    IN  [k \in 1..Len(sorted_candles) |-> Row(symbol, sorted_candles[k][2])]

\* cursor.executemany: the statement applied to the first n rows, in order
RECURSIVE executemany(_, _, _)
executemany(table, rows, n) ==
    IF n = 0 THEN table
    ELSE InsertOrReplace(executemany(table, rows, n - 1), rows[n])

\* faulty variant: the SELECT without its ORDER BY
get_sorted_historical_data_unordered(table, symbol) ==
    SelectSeq(table, LAMBDA r : r.symbol = symbol)

\* get_sorted_historical_data, lines 157-165: WHERE symbol = ? ORDER BY timestamp ASC
get_sorted_historical_data(table, symbol) ==
    LET selected == SelectSeq(table, LAMBDA r : r.symbol = symbol)
        sorted == SortByKey([k \in 1..Len(selected) |-> <<selected[k].timestamp, selected[k]>>])
    IN  [k \in 1..Len(sorted) |-> sorted[k][2]]

\* insert_signal, lines 66-71: the statement names the columns (timestamp, signal)
\* only, so the row has no symbol
SignalRow(timestamp, signal) ==
    [symbol |-> NULL, timestamp |-> timestamp, signal |-> signal]

\* symbol TEXT NOT NULL, line 52: without a default value REPLACE aborts
ViolatesNotNull(row) == row.symbol = NULL

Call(op, status, symbol, data, applied, rows) ==
    [op |-> op, status |-> status, symbol |-> symbol, data |-> data,
     applied |-> applied, rows |-> rows, timestamp |-> 0, signal |-> ""]

SignalCall(status, timestamp, signal) ==
    [op |-> "insert_signal", status |-> status, symbol |-> "", data |-> << >>,
     applied |-> 0, rows |-> << >>, timestamp |-> timestamp, signal |-> signal]

(***************************************************************************)
(* Calls of the Database methods                                           *)
(***************************************************************************)
\* insert_or_update_data(symbol, ...): it has no handler, an error propagates
UpsertCandle ==
    /\ \E write \in Writes :
          \/ /\ historical_data' = insert_or_update_data(historical_data, write[1], write[2])
             /\ db_call' = Call("insert_or_update_data", "ok", write[1], <<write[2]>>, 1, << >>)
          \/ /\ db_call' = Call("insert_or_update_data", "raise", write[1], <<write[2]>>, 0, << >>)
             /\ UNCHANGED historical_data
    /\ UNCHANGED <<strategy, strategy_signals, ing_pc>>

\* bulk_insert_historical_data(symbol, candles): all rows, or an error after
\* the first n rows, printed by the handler of line 146
bulk_insert_historical_data(symbol, batch) ==
    \/ /\ historical_data' = executemany(historical_data, data_to_insert(symbol, batch),
                                         Len(batch))
       /\ db_call' = Call("bulk_insert_historical_data", "ok", symbol, batch,
                          Len(batch), << >>)
    \/ \E n \in 0..(Len(batch) - 1) :
          /\ historical_data' = executemany(historical_data,
                                            data_to_insert(symbol, batch), n)
          /\ db_call' = Call("bulk_insert_historical_data", "caught", symbol, batch,
                             n, << >>)

BulkUpsert ==
    /\ \E batch \in Batches : bulk_insert_historical_data(symbol_traded, batch)
    /\ UNCHANGED <<strategy, strategy_signals, ing_pc>>

\* get_sorted_historical_data(symbol): the rows, or [] from the handler of line 167
ReadOrdered ==
    /\ \E symbol \in Symbols :
          \/ db_call' = Call("get_sorted_historical_data", "ok", symbol, << >>, 0,
                             get_sorted_historical_data(historical_data, symbol))
          \/ db_call' = Call("get_sorted_historical_data", "caught", symbol, << >>, 0, << >>)
    /\ UNCHANGED <<strategy, historical_data, strategy_signals, ing_pc>>

\* insert_signal(timestamp, signal): it has no handler, an error propagates
InsertSignal ==
    /\ \E timestamp \in 1..MaxTs, signal \in {"buy", "sell"} :
          LET row == SignalRow(timestamp, signal)
          IN  IF ViolatesNotNull(row)
              THEN /\ db_call' = SignalCall("raise", timestamp, signal)
                   /\ UNCHANGED strategy_signals
              ELSE /\ strategy_signals' = InsertOrReplace(strategy_signals, row)
                   /\ db_call' = SignalCall("ok", timestamp, signal)
    /\ UNCHANGED <<strategy, historical_data, ing_pc>>

(***************************************************************************)
(* fetch_and_store_data(symbol), lines 187-225: one try block around the   *)
(* first load and the refresh loop; its handler prints and the function    *)
(* returns.                                                                *)
(***************************************************************************)
IngestHandler == "returned"

\* lines 189-193
IngestInitialFetch ==
    /\ ing_pc = "initial_fetch"
    /\ \/ \* get_candlesticks raises
          /\ ing_pc' = IngestHandler
          /\ UNCHANGED <<historical_data, db_call>>
       \/ \* an answer without 'data'
          /\ ing_pc' = "refresh"
          /\ UNCHANGED <<historical_data, db_call>>
       \/ \E batch \in Batches :
             /\ bulk_insert_historical_data(symbol_traded, batch)
             /\ ing_pc' = "refresh"
    /\ UNCHANGED <<strategy, strategy_signals>>

\* lines 204-218, one pass of the while loop up to the sleep
IngestRefresh ==
    /\ ing_pc = "refresh"
    /\ \/ \* get_candlesticks raises, or 'data' is empty and data[0] raises
          /\ ing_pc' = IngestHandler
          /\ UNCHANGED <<historical_data, db_call>>
       \/ \* an answer without 'data'
          /\ ing_pc' = "ingest_sleep"
          /\ UNCHANGED <<historical_data, db_call>>
       \/ \E latest_data \in StoreCandles \cup {MalformedBar} :
             IF Len(latest_data) < 6
             THEN \* latest_data[2] raises
                  /\ ing_pc' = IngestHandler
                  /\ UNCHANGED <<historical_data, db_call>>
             ELSE \/ /\ historical_data' = insert_or_update_data(historical_data,
                                                                 symbol_traded, latest_data)
                     /\ db_call' = Call("insert_or_update_data", "ok", symbol_traded,
                                        <<latest_data>>, 1, << >>)
                     /\ ing_pc' = "ingest_sleep"
                  \/ \* the write raises
                     /\ db_call' = Call("insert_or_update_data", "raise", symbol_traded,
                                        <<latest_data>>, 0, << >>)
                     /\ ing_pc' = IngestHandler
                     /\ UNCHANGED historical_data
    /\ UNCHANGED <<strategy, strategy_signals>>

\* line 222: time.sleep(2), then the next pass
IngestSleep ==
    /\ ing_pc = "ingest_sleep"
    /\ ing_pc' = "refresh"
    /\ UNCHANGED <<strategy, historical_data, strategy_signals, db_call>>

StoreNext ==
    \/ UpsertCandle
    \/ BulkUpsert
    \/ ReadOrdered
    \/ InsertSignal
    \/ IngestInitialFetch
    \/ IngestRefresh
    \/ IngestSleep

StoreSpec == Init /\ [][StoreNext]_vars

(***************************************************************************)
(* Vocabulary of the properties                                            *)
(***************************************************************************)
Last(seq) == seq[Len(seq)]

\* steps of run_strategy, recognised by the statement they leave
CheckEntryStep == pc = "check_entry_conditions" /\ pc' # pc
EnterStep      == pc = "enter_position" /\ pc' # pc
CheckExitStep  == pc = "check_exit_conditions" /\ pc' # pc
ExitStep       == pc = "exit_position" /\ pc' # pc

\* the price levels of the exit and entry rules, on position (size, avg)
AtOrBelowStopLoss == 100 * current_price <= position_avg_price * (100 - stop_loss_percent)
BelowImmediateExit ==
    100 * current_price < position_avg_price * (100 - immediate_exit_threshold)
AtOrAboveTakeProfit ==
    100 * current_price >= position_avg_price * (100 + take_profit_percent)
AboveBuy2Offset == 100 * current_price > position_avg_price * (100 + buy2_offset)

\* the request of this step reached place_order and place_order returned
PlaceOrderReturned ==
    /\ Len(orders') = Len(orders) + 1
    /\ Last(orders').outcome # "raise"

(***************************************************************************)
(* C1 (as stated): for a non-flat position with the current price at or    *)
(* below the stop-loss level avg_price * (1 - stop_loss%), the exit check  *)
(* yields 'tp_sl'.                                                         *)
(***************************************************************************)
C1_StopLossYieldsTpSl ==
    (pc = "exit_position" /\ AtOrBelowStopLoss) => exit_signal = "tp_sl"

(***************************************************************************)
(* C1 (amended): for a non-flat position with the current price at or      *)
(* below the stop-loss level, the exit check yields an exit signal, which  *)
(* is 'immediate_exit' (the immediate-exit level lies above the stop-loss  *)
(* level and is tested first), and once the exit order is executed the     *)
(* position is {0, 0}.                                                     *)
(***************************************************************************)
C1_StopLossExits ==
    [][ /\ (CheckExitStep /\ position_size # 0 /\ AtOrBelowStopLoss)
              => (exit_signal' = "immediate_exit" /\ pc' = "exit_position")
        /\ (ExitStep /\ AtOrBelowStopLoss /\ PlaceOrderReturned)
              => (position_size' = 0 /\ position_avg_price' = 0) ]_vars

\* position {40, 100} bought in this iteration, price 96: exit fired and executed
C1_Witness ==
    /\ pc = "sleep"
    /\ order_price = 100 /\ current_price = 96
    /\ entry_signal = "buy1"
    /\ exit_signal = "immediate_exit"
    /\ Len(orders) = 2 /\ orders[2].outcome = "accepted"
    /\ position_size = 0 /\ position_avg_price = 0

(***************************************************************************)
(* C2: for a non-flat position, whenever the current price is strictly     *)
(* below avg_price * (1 - immediate_exit_threshold%), the exit check       *)
(* returns 'immediate_exit', never 'tp_sl', also when the stop-loss        *)
(* condition holds too.                                                    *)
(***************************************************************************)
C2_ImmediateExitPrecedence ==
    [][ (CheckExitStep /\ position_size # 0 /\ BelowImmediateExit)
           => (exit_signal' = "immediate_exit" /\ exit_signal' # "tp_sl") ]_vars

\* position {40, 100}, price 97: below the immediate-exit level 98 and at the stop 97
C2_Witness ==
    /\ pc = "exit_position"
    /\ position_size = 40 /\ position_avg_price = 100
    /\ current_price = 97
    /\ AtOrBelowStopLoss
    /\ exit_signal = "immediate_exit"

(***************************************************************************)
(* C3: in every reachable state position_size is 0, buy1_size or           *)
(* buy1_size + buy2_size: the second tranche is bought at most once per    *)
(* open position, there is no third tranche, the size is never negative.   *)
(***************************************************************************)
C3_PositionSizes ==
    position_size \in {0, buy1_size, buy1_size + buy2_size}

\* both tranches held and the entry check ran again on the full position
C3_Witness ==
    /\ position_size = buy1_size + buy2_size
    /\ pc = "check_exit_conditions"
    /\ entry_signal = None
    /\ AboveBuy2Offset

(***************************************************************************)
(* C4: in every reachable state position_size = 0 if and only if           *)
(* position_avg_price = 0 (market prices are positive).                    *)
(***************************************************************************)
C4_FlatIffNoCostBasis ==
    (position_size = 0) <=> (position_avg_price = 0)

\* a position that was opened and closed again in the same iteration
C4_Witness ==
    /\ pc = "sleep"
    /\ Len(orders) = 2
    /\ orders[1].outcome # "raise" /\ orders[2].outcome # "raise"
    /\ position_size = 0 /\ position_avg_price = 0


(***************************************************************************)
(* C5: from FLAT the entry check returns 'buy1' exactly when the latest    *)
(* RSI value is strictly below the oversold threshold (an RSI equal to the *)
(* threshold, or undefined, gives no signal); after the buy1 order is      *)
(* executed the position is {buy1_size, current_price}, current_price      *)
(* being the price enter_position fetched for the order.                   *)
(***************************************************************************)
LatestRsiBelowOversold ==
    /\ Len(historical_prices) > 0
    /\ LET r == Last(calculate_rsi(historical_prices))
       IN  r # NaN /\ r[1] < rsi_oversold * r[2]

C5_FlatEntry ==
    [][ /\ (CheckEntryStep /\ position_size = 0)
              => ((entry_signal' = "buy1" /\ pc' = "enter_position")
                    <=> LatestRsiBelowOversold)
        /\ (EnterStep /\ entry_signal = "buy1" /\ PlaceOrderReturned)
              => (position_size' = buy1_size /\ position_avg_price' = order_price') ]_vars

\* buy1 executed at an order price that differs from the price of the checks
C5_Witness ==
    /\ pc = "check_exit_conditions"
    /\ entry_signal = "buy1"
    /\ result # None
    /\ order_price # current_price
    /\ position_size = buy1_size /\ position_avg_price = order_price

(***************************************************************************)
(* C6 (as stated): with position size equal to the first-entry size the    *)
(* entry check returns 'buy2' exactly when the current price is strictly   *)
(* greater than avg_price * (1 + buy2_offset%).                            *)
(***************************************************************************)
C6_Buy2ExactlyWhenAboveOffset ==
    [][ (CheckEntryStep /\ position_size = buy1_size)
           => ((entry_signal' = "buy2" /\ pc' = "enter_position") <=> AboveBuy2Offset) ]_vars

(***************************************************************************)
(* C6 (what holds): with position size equal to the first-entry size and a *)
(* non-empty price history the entry check returns 'buy2' exactly when the *)
(* current price is strictly greater than avg_price * (1 + buy2_offset%),  *)
(* whatever the RSI value, undefined included; with an empty price history *)
(* the check raises, no signal is returned and no order is sent; after a   *)
(* buy2 order is executed the size is buy1_size + buy2_size.               *)
(***************************************************************************)
C6_SecondTranche ==
    [][ /\ (CheckEntryStep /\ position_size = buy1_size /\ Len(historical_prices) > 0)
              => ((entry_signal' = "buy2" /\ pc' = "enter_position") <=> AboveBuy2Offset)
        /\ (CheckEntryStep /\ position_size = buy1_size /\ Len(historical_prices) = 0)
              => (entry_signal' = None /\ pc' = LoopHandler /\ orders' = orders)
        /\ (EnterStep /\ entry_signal = "buy2" /\ PlaceOrderReturned)
              => position_size' = buy1_size + buy2_size ]_vars

\* buy2 executed on an undefined RSI (history shorter than the warm-up)
C6_Witness ==
    /\ pc = "check_exit_conditions"
    /\ entry_signal = "buy2"
    /\ Len(historical_prices) = ShortLen
    /\ result # None
    /\ position_size = buy1_size + buy2_size

(***************************************************************************)
(* C7: for a non-flat position the exit check returns 'tp_sl' when the     *)
(* current price is at or above the take-profit level; when the price is   *)
(* at or above the immediate-exit level, above the stop-loss level and     *)
(* below the take-profit level it returns no signal and the iteration      *)
(* leaves size and average price unchanged.                                *)
(***************************************************************************)
C7_TakeProfitOrHold ==
    [][ /\ (CheckExitStep /\ position_size # 0 /\ AtOrAboveTakeProfit)
              => (exit_signal' = "tp_sl" /\ pc' = "exit_position")
        /\ (CheckExitStep /\ position_size # 0 /\ ~BelowImmediateExit
              /\ ~AtOrBelowStopLoss /\ ~AtOrAboveTakeProfit)
              => (exit_signal' = None /\ pc' = "sleep" /\ orders' = orders
                  /\ position_size' = position_size
                  /\ position_avg_price' = position_avg_price)
        /\ (pc = "sleep" /\ exit_signal = None)
              => (position_size' = position_size
                  /\ position_avg_price' = position_avg_price) ]_vars

\* price exactly at the take-profit level 105 of a position bought at 100
C7_Witness ==
    /\ pc = "exit_position"
    /\ position_size # 0 /\ position_avg_price = 100
    /\ current_price = 105
    /\ exit_signal = "tp_sl"

(***************************************************************************)
(* C8: exits are full-position closes: an exit order is sent only when     *)
(* position_size # 0, it is a 'sell' of the whole position_size, and after *)
(* a successful exit the position is {0, 0}, with one tranche or two.      *)
(***************************************************************************)
C8_FullPositionClose ==
    [][ ExitStep =>
          /\ position_size # 0
          /\ Len(orders') = Len(orders) + 1
          /\ Last(orders').side = "sell"
          /\ float(Last(orders').sz) = position_size
          /\ (PlaceOrderReturned => (position_size' = 0 /\ position_avg_price' = 0)) ]_vars

\* two tranches were held and sold in one order
C8_Witness ==
    /\ pc = "sleep"
    /\ Len(orders) > 0
    /\ Last(orders).side = "sell"
    /\ Last(orders).sz = str(buy1_size + buy2_size)
    /\ Last(orders).outcome = "accepted"
    /\ position_size = 0 /\ position_avg_price = 0

(***************************************************************************)
(* C9: enter_position / exit_position change position_size and             *)
(* position_avg_price if and only if place_order returned without raising; *)
(* if the price fetch or place_order raises the position is left as it     *)
(* was and the operation returns None, the exception does not propagate.   *)
(***************************************************************************)
C9_BookkeepingFollowsRequest ==
    [][ (EnterStep \/ ExitStep) =>
          /\ (<<position_size', position_avg_price'>> # <<position_size, position_avg_price>>)
                <=> PlaceOrderReturned
          /\ ~PlaceOrderReturned =>
                /\ result' = None
                /\ position_size' = position_size
                /\ position_avg_price' = position_avg_price
                /\ pc' = IF pc = "enter_position" THEN "check_exit_conditions" ELSE "sleep"
                /\ "run_strategy" \notin errors' ]_vars

\* place_order raised on a buy2: the first tranche is kept as it was
C9_Witness ==
    /\ pc = "check_exit_conditions"
    /\ entry_signal = "buy2"
    /\ Len(orders) = 1 /\ orders[1].outcome = "raise"
    /\ result = None
    /\ "enter_position" \in errors
    /\ position_size = buy1_size /\ position_avg_price # order_price

(***************************************************************************)
(* C10: a failed iteration never ends the strategy loop: whatever sub-call *)
(* raised, the exception is caught and a next iteration begins.            *)
(***************************************************************************)
C10_LoopSurvivesFailedCycle ==
    (errors # {}) ~> (pc = "get_historical_prices" /\ errors = {})

\* an exception reached the handler of the loop while a position is open
C10_Witness ==
    /\ pc = "sleep"
    /\ "run_strategy" \in errors
    /\ current_price # NoPrice
    /\ position_size = buy1_size


(***************************************************************************)
(* Which remote read of the iteration failed                               *)
(***************************************************************************)
\* line 94 raised, or line 95 raised on the payload
CandleFetchFailed == "get_historical_prices" \in errors
\* line 257 raised
PriceFetchFailed == "run_strategy" \in errors /\ current_price = NoPrice
\* line 192 raised
OrderPriceFetchFailed ==
    "enter_position" \in errors /\ order_price = NoPrice /\ pc # "enter_position"

(***************************************************************************)
(* C12 (as stated): when the candle fetch or a price fetch raises in an    *)
(* iteration, no order is placed in that iteration.                        *)
(***************************************************************************)
C12_NoOrderAfterFailedFetch ==
    (CandleFetchFailed \/ PriceFetchFailed \/ OrderPriceFetchFailed) => orders = << >>

(***************************************************************************)
(* C12 (amended): when the candle fetch or the price fetch of the          *)
(* iteration (line 257) raises, the caller gets an empty sequence / no     *)
(* signal, no order is placed in that iteration, the position is           *)
(* unchanged and the loop goes on to the next iteration; when the price    *)
(* fetch inside enter_position raises, the entry sends no order and        *)
(* leaves the position, and the exit check of the iteration still runs.    *)
(***************************************************************************)
C12_DegradeToEmpty ==
    [][ /\ (CandleFetchFailed' \/ PriceFetchFailed')
              => /\ position_size' = position_size
                 /\ position_avg_price' = position_avg_price
                 /\ orders' = << >>
                 /\ entry_signal' = None /\ exit_signal' = None
                 /\ pc' \in {"get_current_price", "check_entry_conditions", "sleep"}
        /\ CandleFetchFailed' => historical_prices' = << >>
        /\ (pc = "sleep" /\ (CandleFetchFailed \/ PriceFetchFailed))
              => pc' = "get_historical_prices"
        /\ (EnterStep /\ OrderPriceFetchFailed')
              => /\ position_size' = position_size
                 /\ position_avg_price' = position_avg_price
                 /\ orders' = orders
                 /\ pc' = "check_exit_conditions" ]_vars

\* candles failed, price 96 obtained on a position bought at 100: nothing is sold
C12_Witness ==
    /\ pc = "sleep"
    /\ CandleFetchFailed
    /\ "run_strategy" \in errors
    /\ current_price = 96
    /\ position_size = buy1_size /\ position_avg_price = 100
    /\ orders = << >>

(***************************************************************************)
(* C13: with fewer than rsi_length + 1 prices (none included) the          *)
(* iteration has no entry signal and no exit signal, and the checks do     *)
(* not raise.                                                              *)
(***************************************************************************)
EntryCheckDone ==
    /\ current_price # NoPrice
    /\ pc \notin {"get_historical_prices", "get_current_price", "check_entry_conditions"}

C13_InsufficientHistoryNoSignal ==
    (EntryCheckDone /\ Len(historical_prices) <= rsi_length)
        => /\ "run_strategy" \notin errors
           /\ entry_signal = None
           /\ exit_signal = None

(***************************************************************************)
(* C17: get_historical_prices returns the close prices of the delivered    *)
(* candles ordered ascending by time, at most `limit` of them.             *)
(***************************************************************************)
limit == 100

ClosesAscending(feed) ==
    LET pairs == [k \in 1..Len(feed) |-> <<float(feed[k][1]), float(feed[k][5])>>]
        sorted == SortByKey(pairs)
    IN  [k \in 1..Len(sorted) |-> sorted[k][2]]

C17_RecentClosesAscending ==
    ~CandleFetchFailed
        => /\ historical_prices = ClosesAscending(candles)
           /\ Len(historical_prices) <= limit

(***************************************************************************)
(* C18: whenever an iteration executes a buy or an exit, a signal row for  *)
(* it is recorded in the store.                                            *)
(***************************************************************************)
SignalKind(order) == order.side

C18_DecisionsPersisted ==
    \A i \in 1..Len(orders) :
        orders[i].outcome # "raise"
            => \E j \in 1..Len(strategy_signals) :
                   strategy_signals[j].signal = SignalKind(orders[i])

(***************************************************************************)
(* C19: the entry check and the exit check leave position_size and         *)
(* position_avg_price (and the orders) as they were, and the signal they   *)
(* give is a function of (position, prices, current_price) alone.          *)
(***************************************************************************)
C19_ChecksArePure ==
    [][ /\ CheckEntryStep
              => /\ position_size' = position_size
                 /\ position_avg_price' = position_avg_price
                 /\ orders' = orders
                 /\ LET signal == check_entry_conditions(position_size, position_avg_price,
                                                         historical_prices, current_price)
                    IN  signal # RaiseSignal => entry_signal' = signal
        /\ CheckExitStep
              => /\ position_size' = position_size
                 /\ position_avg_price' = position_avg_price
                 /\ orders' = orders
                 /\ exit_signal' = check_exit_conditions(position_size, position_avg_price,
                                                         current_price) ]_vars

\* both checks ran on an open position and it is still the position {47, 100}
C19_Witness ==
    /\ pc = "exit_position"
    /\ entry_signal = None
    /\ exit_signal = "immediate_exit"
    /\ orders = << >>
    /\ position_size = buy1_size + buy2_size /\ position_avg_price = 100

(***************************************************************************)
(* C20 (as stated): a non-flat position whose price satisfies an exit      *)
(* condition gets an exit attempt in every iteration in which the current  *)
(* price was obtained.                                                     *)
(***************************************************************************)
ExitConditionHolds ==
    check_exit_conditions(position_size, position_avg_price, current_price) # None

ExitAttempted == Len(orders) > 0 /\ Last(orders).side = "sell"

C20_ExitAttemptEveryCycle ==
    (pc = "sleep" /\ current_price # NoPrice /\ ExitConditionHolds) => ExitAttempted

(***************************************************************************)
(* C20 (what holds): in every iteration in which the entry check returns,  *)
(* the exit check is evaluated after the entry step, whether or not an     *)
(* entry signal fired and whether or not the entry order succeeded; a      *)
(* non-flat position whose price satisfies an exit condition gets an exit  *)
(* attempt in every iteration in which the current price was obtained and  *)
(* the price history is not empty.  With an empty history the entry check  *)
(* raises and the exit check of that iteration is skipped.                 *)
(***************************************************************************)
C20_ExitAfterEntry ==
    [][ /\ (CheckEntryStep /\ Len(historical_prices) > 0)
              => pc' \in {"enter_position", "check_exit_conditions"}
        /\ EnterStep => pc' = "check_exit_conditions"
        /\ (CheckExitStep /\ ExitConditionHolds) => pc' = "exit_position"
        /\ (CheckEntryStep /\ Len(historical_prices) = 0)
              => (pc' = "sleep" /\ exit_signal' = None /\ orders' = orders)
        /\ (pc' = "sleep" /\ current_price' # NoPrice /\ Len(historical_prices') > 0
              /\ ExitConditionHolds')
              => ExitAttempted' ]_vars

\* the buy2 order failed and the exit of the same iteration is attempted
C20_Witness ==
    /\ pc = "exit_position"
    /\ entry_signal = "buy2"
    /\ result = None
    /\ "enter_position" \in errors
    /\ exit_signal = "tp_sl"


(***************************************************************************)
(* C11: in the ingestion loop a failed store write, or a failed or         *)
(* malformed fetch of the latest bar, in one pass does not end the loop:   *)
(* later passes still run.                                                 *)
(***************************************************************************)
C11_IngestionSurvivesFailedPass ==
    [][ ing_pc = "refresh" => ing_pc' \in {"refresh", "ingest_sleep"} ]_vars

(***************************************************************************)
(* Vocabulary of the store properties                                      *)
(***************************************************************************)
RowsOfKey(table, symbol, timestamp) ==
    SelectSeq(table, LAMBDA r : r.symbol = symbol /\ r.timestamp = timestamp)

\* the last candle of a batch, in delivery order, that has the timestamp of candle
LastWithTimestamp(batch, candle) ==
    LET last == CHOOSE k \in 1..Len(batch) :
                   /\ float(batch[k][1]) = float(candle[1])
                   /\ \A j \in (k + 1)..Len(batch) : float(batch[j][1]) # float(candle[1])
    IN  batch[last]

(***************************************************************************)
(* C14: after any sequence of single and bulk upserts the table holds at   *)
(* most one row per (symbol, timestamp); after an upsert the row of its    *)
(* key is the written candle, all columns; after a bulk upsert the row of  *)
(* each key of the batch is the last candle of the batch with that key.    *)
(***************************************************************************)
C14_IdempotentUpsert ==
    /\ \A i, j \in 1..Len(historical_data) :
          SameKey(historical_data[i], historical_data[j]) => i = j
    /\ (db_call.op = "insert_or_update_data" /\ db_call.status = "ok")
          => RowsOfKey(historical_data, db_call.symbol, float(db_call.data[1][1]))
                = <<Row(db_call.symbol, db_call.data[1])>>
    /\ (db_call.op = "bulk_insert_historical_data" /\ db_call.status = "ok")
          => \A k \in 1..Len(db_call.data) :
                RowsOfKey(historical_data, db_call.symbol, float(db_call.data[k][1]))
                   = <<Row(db_call.symbol, LastWithTimestamp(db_call.data, db_call.data[k]))>>

\* a batch with two revisions of bar 1 replaced the stored revision by the later one
C14_Witness ==
    /\ db_call.op = "bulk_insert_historical_data" /\ db_call.status = "ok"
    /\ db_call.data = <<Bar(1, 1), Bar(1, 2)>>
    /\ Len(historical_data) = 2
    /\ historical_data[2] = Row(symbol_traded, Bar(1, 2))
    /\ historical_data[1].timestamp = 2

(***************************************************************************)
(* C15: get_sorted_historical_data(symbol) yields the rows of that symbol  *)
(* with timestamps in non-decreasing order, whatever the order of the      *)
(* writes; it yields [] for a symbol without rows and on a read failure,   *)
(* and does not raise.                                                     *)
(***************************************************************************)
C15_ReadOrdered ==
    db_call.op = "get_sorted_historical_data"
       => /\ db_call.status \in {"ok", "caught"}
          /\ \A k \in 1..(Len(db_call.rows) - 1) :
                db_call.rows[k].timestamp <= db_call.rows[k + 1].timestamp
          /\ \A k \in 1..Len(db_call.rows) : db_call.rows[k].symbol = db_call.symbol
          /\ db_call.status = "ok"
                => /\ Len(db_call.rows)
                        = Cardinality({i \in 1..Len(historical_data) :
                                          historical_data[i].symbol = db_call.symbol})
                   /\ \A k \in 1..Len(db_call.rows) :
                         \E i \in 1..Len(historical_data) : historical_data[i] = db_call.rows[k]
          /\ db_call.status = "caught" => db_call.rows = << >>

\* bar 2 was written before bar 1, a row of another symbol lies between them
C15_Witness ==
    /\ db_call.op = "get_sorted_historical_data" /\ db_call.status = "ok"
    /\ db_call.symbol = symbol_traded
    /\ Len(historical_data) = 3
    /\ historical_data[1].timestamp = 2
    /\ historical_data[2].symbol = OtherSymbol
    /\ historical_data[3].timestamp = 1
    /\ Len(db_call.rows) = 2

(***************************************************************************)
(* C16: after insert_signal(timestamp, kind) the table strategy_signals    *)
(* holds exactly one row of that key, carrying the kind; recording again   *)
(* leaves exactly one row.                                                 *)
(***************************************************************************)
C16_SignalUpsert ==
    db_call.op = "insert_signal"
       => /\ db_call.status = "ok"
          /\ Len(SelectSeq(strategy_signals,
                           LAMBDA r : r.timestamp = db_call.timestamp)) = 1
          /\ \A i \in 1..Len(strategy_signals) :
                strategy_signals[i].timestamp = db_call.timestamp
                   => strategy_signals[i].signal = db_call.signal


(***************************************************************************)
(* C21 (as stated): an iteration of run_strategy sends exactly one         *)
(* market-data request and at most one order.                              *)
(***************************************************************************)
C21_OneReadOneWrite ==
    pc = "sleep" => (remote_reads = 1 /\ Len(orders) <= 1)

\* the requests of this iteration that reached place_order with this side
OrdersOfSide(side) == {i \in 1..Len(orders) : orders[i].side = side}

\* enter_position was called in this iteration and has returned
EntryStepDone ==
    entry_signal \in {"buy1", "buy2"} /\ pc \in {"check_exit_conditions", "exit_position", "sleep"}

(***************************************************************************)
(* C21 (amended): an iteration of run_strategy sends two market-data       *)
(* requests (candles, ticker) and a third one (the ticker again, inside    *)
(* enter_position) exactly when an entry signal fired; it sends at most    *)
(* two orders, at most one buy and at most one sell, the buy first.  An    *)
(* iteration whose entry check did not return sends no order.              *)
(***************************************************************************)
C21_ReadsAndWritesPerCycle ==
    /\ remote_reads <= 3
    /\ Len(orders) <= 2
    /\ Cardinality(OrdersOfSide("buy")) <= 1
    /\ Cardinality(OrdersOfSide("sell")) <= 1
    /\ Len(orders) = 2 => (orders[1].side = "buy" /\ orders[2].side = "sell")
    /\ OrdersOfSide("buy") # {} => EntryStepDone
    /\ pc = "sleep" => /\ remote_reads = IF EntryStepDone THEN 3 ELSE 2
                       /\ "run_strategy" \in errors => orders = << >>

\* three requests and two orders in one iteration: the first tranche was
\* bought at the re-fetched price and sold at once
C21_Witness ==
    /\ pc = "sleep"
    /\ remote_reads = 3
    /\ Len(orders) = 2
    /\ orders[1].side = "buy" /\ orders[1].outcome = "accepted"
    /\ orders[2].side = "sell" /\ orders[2].outcome = "accepted"
    /\ position_size = 0


(***************************************************************************)
(* C22: a buy followed by a sell in one iteration happens only when the    *)
(* price fetched inside enter_position (the new avg_price) differs from    *)
(* the current_price of the iteration: when both fetches returned the      *)
(* same positive price and the entry was executed, the exit check of that  *)
(* iteration returns no signal and the position is open at its end.        *)
(***************************************************************************)
EntryExecuted ==
    /\ EntryStepDone
    /\ Len(orders) > 0
    /\ orders[1].side = "buy"
    /\ orders[1].outcome # "raise"

C22_SamePriceEntryStaysOpen ==
    /\ (EntryExecuted /\ OrdersOfSide("sell") # {}) => order_price # current_price
    /\ (EntryExecuted /\ order_price = current_price /\ current_price > 0)
          => /\ pc # "exit_position"
             /\ position_size > 0
             /\ position_avg_price = current_price
             /\ pc = "sleep" => (exit_signal = None /\ Len(orders) = 1)

\* the second tranche was bought at the price the checks used, and is kept
C22_Witness ==
    /\ pc = "sleep"
    /\ EntryExecuted
    /\ entry_signal = "buy2"
    /\ order_price = current_price
    /\ exit_signal = None
    /\ position_size = buy1_size + buy2_size


(***************************************************************************)
(* C23 (as stated): an exit order that fails leaves the position as it     *)
(* was, and the exit is attempted again in later iterations: under         *)
(* fairness of the loop, if from some point on the fetches succeed, the    *)
(* exit condition holds whenever the position is open and place_order no   *)
(* longer fails on the exit, the position becomes flat {0,0}.              *)
(***************************************************************************)
ExitOrderRaised == "exit_position" \in errors

Flat == position_size = 0 /\ position_avg_price = 0

\* nothing stands in the way of the exit: no fetch failed in this iteration,
\* place_order did not raise on the exit, and the price satisfies an exit
\* condition of the open position
Favourable ==
    /\ ~CandleFetchFailed
    /\ ~PriceFetchFailed
    /\ ~OrderPriceFetchFailed
    /\ ~ExitOrderRaised
    /\ (position_size # 0 /\ current_price # NoPrice) => ExitConditionHolds

C23_ExitRetriedUntilFlat ==
    /\ [][ (ExitStep /\ ~PlaceOrderReturned) => UNCHANGED position ]_vars
    /\ <>[]Favourable => []<>Flat

\* the candle fetch of this iteration delivered at least one candle
HistoryDelivered == pc # "get_historical_prices" => Len(historical_prices) > 0

\* the same with a non-empty price history in every iteration
C23_ExitRetriedWithHistory ==
    /\ [][ (ExitStep /\ ~PlaceOrderReturned) => UNCHANGED position ]_vars
    /\ <>[](Favourable /\ HistoryDelivered) => []<>Flat

====
